---- MODULE Spec2Model ----
(***************************************************************************)
(* Model of the Discord status server (src/server.js): the gateway session *)
(* class DiscordConnection, the session registry activeConnections, the    *)
(* client notification table clientWebSockets and the HTTP handlers.       *)
(*                                                                         *)
(* Every handler of the program runs to completion on the Node event loop, *)
(* so each handler is one action.  A gateway socket of the ws library is   *)
(* modelled by its readyState; the socket delivers 'message' events while  *)
(* it is OPEN, and every socket that was opened emits 'close' exactly      *)
(* once, after 'error' when there is one.                                  *)
(*                                                                         *)
(* The model follows one DiscordConnection object.  A handler reads and    *)
(* writes only the connection of the session id it names, the registry and *)
(* the subscriber table; requests and register messages may also name an   *)
(* id that the server never handed out.                                    *)
(***************************************************************************)
EXTENDS Integers, Sequences, FiniteSets, TLC

\* ------------------------------------------------------------------ bounds
MaxSockets  == 2      \* pool of gateway socket handles per session
MaxClients  == 2      \* client-facing sockets accepted by wss
MaxTimers   == 2      \* heartbeat setInterval handles alive per session
MaxSeq      == 2      \* largest sequence number the peer sends
MaxActivity == 2      \* descriptors of the table below that callers of the server use

Sessions == {1}
SockIds  == 1..MaxSockets
Clients  == 1..MaxClients

\* Session ids a request or a register message may name: 0 is a missing
\* (falsy) id, the members of Sessions are the ids the server hands out, and
\* 2 is an id the server never handed out.
NoId     == 0
HubIds   == Sessions \cup {2}
ReqIds   == {NoId} \cup HubIds

NullSeq  == -1        \* lastSequence = null
NaN      == -1        \* parseInt of a string with no leading digit

\* ------------------------------------------------------------- descriptors
\* A string that the code splits is a sequence of tokens: the separators
\* "/" and ":" are tokens of their own, every other token is a maximal run
\* of other characters.  <<>> is the empty string.
CdnUrl    == <<"https", ":", "/", "/", "i.scdn.co", "/", "image", "/", "abc123">>
PrefixRef == <<"spotify", ":", "image", ":", "abc123">>
OtherUrl  == <<"http", ":", "/", "/", "example.com", "/", "a.png">>

CdnPrefix     == <<"https", ":", "/", "/", "i.scdn.co", "/", "image", "/">>
SpotifyPrefix == <<"spotify", ":">>

\* The activity descriptors a caller supplies (request body field
\* `activity`).  Index 0 stands for null (no descriptor); a missing field is
\* the empty string.  The last descriptor is the {} the page sends to clear
\* the status.
Descriptors ==
  << [name |-> "Song A", type |-> <<"2">>, details |-> "d", state |-> "by Artist",
      imageUrl |-> CdnUrl, imageText |-> "Album"],
     [name |-> "", type |-> <<"0">>, details |-> "", state |-> "",
      imageUrl |-> OtherUrl, imageText |-> "alt"],
     [name |-> "Song A", type |-> <<"2">>, details |-> "d", state |-> "by Artist",
      imageUrl |-> OtherUrl, imageText |-> "alt"],
     [name |-> "Song A", type |-> <<"2">>, details |-> "d", state |-> "by Artist",
      imageUrl |-> PrefixRef, imageText |-> ""],
     [name |-> "Song A", type |-> <<"0">>, details |-> "d", state |-> "",
      imageUrl |-> <<>>, imageText |-> "Album"],
     [name |-> "Song A", type |-> <<"0">>, details |-> "", state |-> "",
      imageUrl |-> OtherUrl, imageText |-> ""],
     [name |-> "", type |-> <<"2">>, details |-> "d", state |-> "by Artist",
      imageUrl |-> CdnUrl, imageText |-> "Album"],
     [name |-> "", type |-> <<>>, details |-> "", state |-> "",
      imageUrl |-> <<>>, imageText |-> ""] >>

NullActivity  == 0
DescriptorIds == 1..Len(Descriptors)
ActivityIds   == 1..MaxActivity
ActivityArgs  == {NullActivity} \cup ActivityIds

\* ------------------------------------------------------------ pure helpers
StartsWith(str, prefix) ==
  /\ Len(str) >= Len(prefix)
  /\ SubSeq(str, 1, Len(prefix)) = prefix

\* str.split(sep).pop(): the part after the last occurrence of sep
\* (the whole string when sep does not occur).
SplitPop(str, sep) ==
  LET idx  == {i \in 1..Len(str) : str[i] = sep}
      from == IF idx = {} THEN 1 ELSE (CHOOSE i \in idx : \A j \in idx : j <= i) + 1
  IN  SubSeq(str, from, Len(str))

\* extractSpotifyImageId(url); <<>> stands for null.
extractSpotifyImageId(url) ==
  IF url = <<>> THEN <<>>
  ELSE IF StartsWith(url, CdnPrefix) THEN SplitPop(url, "/")
  ELSE IF StartsWith(url, SpotifyPrefix) THEN SplitPop(url, ":")
  ELSE <<>>

Digits == <<"0", "1", "2", "3", "4", "5", "6", "7", "8", "9">>
IsDigit(ch) == \E i \in 1..10 : Digits[i] = ch
DigitVal(ch) == (CHOOSE i \in 1..10 : Digits[i] = ch) - 1

RECURSIVE ParseDigits(_, _)
ParseDigits(str, acc) ==
  IF str = <<>> \/ ~IsDigit(Head(str)) THEN acc
  ELSE ParseDigits(Tail(str), acc * 10 + DigitVal(Head(str)))

\* parseInt(str) on a string of single characters.
ParseInt(str) ==
  IF str = <<>> \/ ~IsDigit(Head(str)) THEN NaN ELSE ParseDigits(str, 0)

\* The activity object updatePresence builds for a descriptor with a
\* non-empty name.  assets lists the keys in insertion order.
ActivityOf(a) ==
  LET imageId == extractSpotifyImageId(a.imageUrl)
      image   == IF a.imageUrl # <<>> /\ imageId # <<>>
                 THEN << <<"large_image", SpotifyPrefix \o imageId>> >> ELSE <<>>
      text    == IF a.imageUrl # <<>> /\ a.imageText # ""
                 THEN << <<"large_text", <<a.imageText>> >> >> ELSE <<>>
  IN  [name |-> a.name, type |-> ParseInt(a.type), details |-> a.details,
       state |-> a.state, assets |-> image \o text]

\* The `activities` list of the presence frame updatePresence sends.
PresenceActivities(a) ==
  IF a.name # "" THEN <<ActivityOf(a)>> ELSE <<>>

\* The `activities` list of the presence frame the keep-alive timer sends.
KeepAliveActivities(act) ==
  IF act # NullActivity /\ Descriptors[act].name # ""
  THEN LET a == Descriptors[act]
       IN << [name |-> a.name, type |-> ParseInt(a.type), details |-> a.details,
              state |-> a.state,
              assets |-> IF a.imageUrl # <<>>
                         THEN << <<"large_image", a.imageUrl>> >>
                              \o (IF a.imageText # ""
                                  THEN << <<"large_text", <<a.imageText>> >> >>
                                  ELSE <<>>)
                         ELSE <<>>] >>
  ELSE <<>>

\* Gateway frames the session sends, one shape for every opcode.
HeartbeatFrame(seq) == [op |-> 1, seq |-> seq, token |-> "", activities |-> <<>>]
IdentifyFrame(tok)  == [op |-> 2, seq |-> NullSeq, token |-> tok, activities |-> <<>>]
PresenceFrame(acts) == [op |-> 3, seq |-> NullSeq, token |-> "", activities |-> acts]


\* ------------------------------------------------------------------- state
VARIABLES
  conn,               \* conn[s]: the DiscordConnection with sessionId s
  activeConnections,  \* keys of the registry Map (sessionId -> connection)
  clientWebSockets,   \* clientWebSockets[id]: client socket registered, 0 if none
  client,             \* client[c]: readyState and clientSessionId of a client socket
  running,            \* FALSE once process.exit(0) has run
  sent,               \* gateway frames sent by the last handler, in order
  pub,                \* events handed to notifyClient by the last handler
  dlv,                \* messages the last handler sent to client sockets
  resp,               \* HTTP status the last handler answered with, 0 if none
  last                \* the handler that ran last and the session/id it ran for

vars == <<conn, activeConnections, clientWebSockets, client, running,
          sent, pub, dlv, resp, last>>

\* A gateway socket handle.  first: its handlers close over the resolve and
\* reject of the promise that POST /api/connect awaits.  ident, ready: an
\* identify frame was sent on it, a READY dispatch was handled on it.
NoSock == [st |-> "NONE", first |-> FALSE, ident |-> FALSE, ready |-> FALSE]

\* Fields of a DiscordConnection after its constructor.  made is FALSE for an
\* id no connection was constructed with.  hbTimers counts the heartbeat
\* intervals that were set and not cleared (heartbeatTask is the handle of
\* the newest); reconn counts the pending setTimeout(connect) calls;
\* promise is the promise of the connect() call that POST /api/connect
\* awaits; disc records that disconnect() ran.
NewConn(tok, made) ==
  [made |-> made, token |-> tok, ws |-> 0, socks |-> [k \in SockIds |-> NoSock],
   heartbeatTask |-> FALSE, hbTimers |-> 0, lastSequence |-> NullSeq,
   heartbeatAcked |-> TRUE, shouldReconnect |-> TRUE,
   currentActivity |-> NullActivity, keepAliveTask |-> FALSE,
   reconn |-> 0, promise |-> "none", disc |-> FALSE]

\* ws.readyState === WebSocket.OPEN for this.ws
WsOpen(c) == c.ws # 0 /\ c.socks[c.ws].st = "OPEN"

\* The handle `new WebSocket(...)` returns: one that is not in use.
FreeSocks(c) == {k \in SockIds : c.socks[k].st \in {"NONE", "CLOSED"}}
NewSockId(c) == CHOOSE k \in FreeSocks(c) : \A j \in FreeSocks(c) : k <= j

\* connect(): this.ws = new WebSocket(...), with the four handlers attached.
connect(c, first) ==
  LET k == NewSockId(c)
  IN  [c EXCEPT !.ws = k,
                !.socks[k] = [st |-> "CONNECTING", first |-> first,
                              ident |-> FALSE, ready |-> FALSE],
                !.promise = IF first THEN "pending" ELSE @]

\* ws.close() on this.ws: starts the closing handshake of an OPEN socket,
\* aborts a CONNECTING one, and does nothing on a closing or CLOSED one.
\* The 'close' event follows later; an aborted handshake (ABORTED, a
\* closing socket) emits 'error' first.
wsClose(c) ==
  IF c.ws # 0 /\ c.socks[c.ws].st = "OPEN"
  THEN [c EXCEPT !.socks[c.ws].st = "CLOSING"]
  ELSE IF c.ws # 0 /\ c.socks[c.ws].st = "CONNECTING"
  THEN [c EXCEPT !.socks[c.ws].st = "ABORTED"]
  ELSE c

\* cleanup()
cleanup(c) ==
  [c EXCEPT !.hbTimers = IF c.heartbeatTask THEN @ - 1 ELSE @,
            !.heartbeatTask = FALSE,
            !.keepAliveTask = FALSE]

Event(id, type, act) == [id |-> id, type |-> type, act |-> act]

\* updatePresence(activityData) on connection c with sessionId s.  threw:
\* the call ended with the TypeError of reading .name of null.
updatePresence(c, s, a) ==
  LET c1 == [c EXCEPT !.currentActivity = a]
  IN  IF ~WsOpen(c1)
      THEN [conn |-> c1, sent |-> <<>>, pub |-> <<>>, threw |-> FALSE]
      ELSE IF a = NullActivity
      THEN [conn |-> c1, sent |-> <<>>, pub |-> <<>>, threw |-> TRUE]
      ELSE [conn |-> c1,
            sent |-> <<PresenceFrame(PresenceActivities(Descriptors[a]))>>,
            pub |-> <<Event(s, "status_updated", a)>>,
            threw |-> FALSE]

\* disconnect()
disconnect(c, s) ==
  [conn |-> [cleanup(wsClose([c EXCEPT !.shouldReconnect = FALSE,
                                       !.currentActivity = NullActivity]))
               EXCEPT !.disc = TRUE],
   pub |-> <<Event(s, "session_ended", NullActivity)>>]

heartbeatTick_NoPending(c) ==
  IF ~c.heartbeatAcked
  THEN [conn |-> wsClose(c), sent |-> <<>>]
  ELSE IF WsOpen(c)
  THEN [conn |-> c, sent |-> <<HeartbeatFrame(c.lastSequence)>>]
  ELSE [conn |-> c, sent |-> <<>>]

\* The heartbeat interval callback set by the hello handler.
heartbeatTick(c) ==
  IF ~c.heartbeatAcked
  THEN [conn |-> wsClose(c), sent |-> <<>>]
  ELSE IF WsOpen(c)
  THEN [conn |-> [c EXCEPT !.heartbeatAcked = FALSE],
        sent |-> <<HeartbeatFrame(c.lastSequence)>>]
  ELSE [conn |-> c, sent |-> <<>>]

\* The keep-alive interval callback set by startKeepAlive.
keepAliveTick(c) ==
  IF WsOpen(c)
  THEN <<PresenceFrame(KeepAliveActivities(c.currentActivity))>>
  ELSE <<>>

\* case 10 of handleMessage: the hello frame.
onHello(c) ==
  LET c1 == [c EXCEPT !.heartbeatAcked = TRUE,
                      !.heartbeatTask = TRUE,
                      !.hbTimers = @ + 1]
  IN  IF WsOpen(c1)
      THEN [conn |-> [c1 EXCEPT !.socks[c1.ws].ident = TRUE],
            sent |-> <<IdentifyFrame(c1.token)>>,
            pub |-> <<>>, resolved |-> FALSE]
      ELSE [conn |-> c1, sent |-> <<>>, pub |-> <<>>, resolved |-> FALSE]

onReady_NoResolve(c, s, k) ==
  LET c1 == [c EXCEPT !.keepAliveTask = TRUE, !.socks[k].ready = TRUE]
      up == updatePresence(c1, s, c1.currentActivity)
  IN  IF c1.currentActivity # NullActivity
      THEN [conn |-> up.conn, sent |-> up.sent,
            pub |-> <<Event(s, "discord_ready", NullActivity)>> \o up.pub,
            resolved |-> FALSE]
      ELSE [conn |-> c1, sent |-> <<>>,
            pub |-> <<Event(s, "discord_ready", NullActivity)>>,
            resolved |-> FALSE]

\* case 0 of handleMessage with t === 'READY', received on socket k:
\* notifyClient, startKeepAlive, resolve(this), and updatePresence of the
\* stored activity if there is one.  resolved: resolve(this) settled the
\* promise POST /api/connect awaits.
onReady(c, s, k) ==
  LET res == c.socks[k].first /\ c.promise = "pending"
      c1  == [c EXCEPT !.keepAliveTask = TRUE,
                       !.socks[k].ready = TRUE,
                       !.promise = IF res THEN "fulfilled" ELSE @]
      up  == updatePresence(c1, s, c1.currentActivity)
  IN  IF c1.currentActivity # NullActivity
      THEN [conn |-> up.conn, sent |-> up.sent,
            pub |-> <<Event(s, "discord_ready", NullActivity)>> \o up.pub,
            resolved |-> res]
      ELSE [conn |-> c1, sent |-> <<>>,
            pub |-> <<Event(s, "discord_ready", NullActivity)>>,
            resolved |-> res]

handleMessage_Op7StopsReconnect(c, s, k, op, seq, t) ==
  LET c0 == IF seq # NullSeq /\ seq # 0 THEN [c EXCEPT !.lastSequence = seq] ELSE c
      none == [conn |-> c0, sent |-> <<>>, pub |-> <<>>, resolved |-> FALSE]
  IN  CASE op = 10 -> onHello(c0)
        [] op = 11 -> [none EXCEPT !.conn = [c0 EXCEPT !.heartbeatAcked = TRUE]]
        [] op = 0 /\ t = "READY" -> onReady(c0, s, k)
        [] op = 7 -> [none EXCEPT !.conn = wsClose([c0 EXCEPT !.shouldReconnect = FALSE])]
        [] OTHER -> none

\* handleMessage(payload, resolve, reject) for a frame received on socket k
\* of connection c (sessionId s): payload.op = op, payload.s = seq (NullSeq
\* when absent), payload.t = t.
handleMessage(c, s, k, op, seq, t) ==
  LET c0 == IF seq # NullSeq /\ seq # 0 THEN [c EXCEPT !.lastSequence = seq] ELSE c
      none == [conn |-> c0, sent |-> <<>>, pub |-> <<>>, resolved |-> FALSE]
  IN  CASE op = 10 -> onHello(c0)
        [] op = 11 -> [none EXCEPT !.conn = [c0 EXCEPT !.heartbeatAcked = TRUE]]
        [] op = 0 /\ t = "READY" -> onReady(c0, s, k)
        [] op = 7 -> [none EXCEPT !.conn = wsClose(c0)]
        [] OTHER -> none

\* --------------------------------------------------------- notification hub
notifyClient_NoOpenCheck(e) ==
  IF clientWebSockets[e.id] # 0
  THEN <<[to |-> clientWebSockets[e.id], type |-> e.type, id |-> e.id]>>
  ELSE <<>>

\* notifyClient(sessionId, data): the message sent to the registered client
\* socket, if there is one and it is OPEN.
notifyClient(e) ==
  IF clientWebSockets[e.id] # 0 /\ client[clientWebSockets[e.id]].st = "OPEN"
  THEN <<[to |-> clientWebSockets[e.id], type |-> e.type, id |-> e.id]>>
  ELSE <<>>

RECURSIVE NotifyAll(_)
NotifyAll(es) ==
  IF es = <<>> THEN <<>> ELSE notifyClient(Head(es)) \o NotifyAll(Tail(es))

\* ---------------------------------------------------------------- registry
Registered(id) == \E i \in 1..Len(activeConnections) : activeConnections[i] = id

\* activeConnections.delete(id)
RegistryDelete(reg, id) == SelectSeq(reg, LAMBDA x : x # id)

\* The `connected` field GET /api/status/:sessionId answers with.
StatusConnected(id) ==
  IF ~Registered(id) THEN FALSE ELSE WsOpen(conn[id])

Tokens == {"", "tok"}

Ran(op, s) == [op |-> op, s |-> s]

Init ==
  /\ conn = [s \in Sessions |-> NewConn("", FALSE)]
  /\ activeConnections = <<>>
  /\ clientWebSockets = [id \in HubIds |-> 0]
  /\ client = [c \in Clients |-> [st |-> "NONE", sid |-> NoId]]
  /\ running = TRUE
  /\ sent = <<>>
  /\ pub = <<>>
  /\ dlv = <<>>
  /\ resp = 0
  /\ last = Ran("init", NoId)

\* ------------------------------------------------------------ HTTP handlers
\* POST /api/connect up to the await of connection.connect().  The ids the
\* server hands out are distinct; they are taken in increasing order.
CreateSession(tok) ==
  /\ running
  /\ IF tok = ""
     THEN /\ resp' = 400
          /\ last' = Ran("connect", NoId)
          /\ UNCHANGED conn
     ELSE \E s \in Sessions :
            /\ ~conn[s].made
            /\ \A j \in Sessions : j < s => conn[j].made
            /\ conn' = [conn EXCEPT ![s] = connect(NewConn(tok, TRUE), TRUE)]
            /\ resp' = 0
            /\ last' = Ran("connect", s)
  /\ sent' = <<>> /\ pub' = <<>> /\ dlv' = <<>>
  /\ UNCHANGED <<activeConnections, clientWebSockets, client, running>>

UpdateStatus_SubscribedOnly(id, a) ==
  /\ running
  /\ last' = Ran("update", id)
  /\ IF id = NoId \/ ~Registered(id)
     THEN /\ resp' = IF id = NoId THEN 400 ELSE 404
          /\ sent' = <<>> /\ pub' = <<>> /\ dlv' = <<>>
          /\ UNCHANGED conn
     ELSE IF clientWebSockets[id] = 0
     THEN /\ resp' = 200
          /\ sent' = <<>> /\ pub' = <<>> /\ dlv' = <<>>
          /\ UNCHANGED conn
     ELSE LET r == updatePresence(conn[id], id, a)
          IN  /\ conn' = [conn EXCEPT ![id] = r.conn]
              /\ sent' = r.sent
              /\ pub' = r.pub
              /\ dlv' = NotifyAll(r.pub)
              /\ resp' = IF r.threw THEN 500 ELSE 200
  /\ UNCHANGED <<activeConnections, clientWebSockets, client, running>>

\* POST /api/update-status
UpdateStatus(id, a) ==
  /\ running
  /\ last' = Ran("update", id)
  /\ IF id = NoId \/ ~Registered(id)
     THEN /\ resp' = IF id = NoId THEN 400 ELSE 404
          /\ sent' = <<>> /\ pub' = <<>> /\ dlv' = <<>>
          /\ UNCHANGED conn
     ELSE LET r == updatePresence(conn[id], id, a)
          IN  /\ conn' = [conn EXCEPT ![id] = r.conn]
              /\ sent' = r.sent
              /\ pub' = r.pub
              /\ dlv' = NotifyAll(r.pub)
              /\ resp' = IF r.threw THEN 500 ELSE 200
  /\ UNCHANGED <<activeConnections, clientWebSockets, client, running>>

DisconnectSession_NoClose(id) ==
  /\ running
  /\ last' = Ran("disconnect", id)
  /\ sent' = <<>> /\ pub' = <<>> /\ dlv' = <<>>
  /\ IF id = NoId \/ ~Registered(id)
     THEN /\ resp' = IF id = NoId THEN 400 ELSE 404
          /\ UNCHANGED activeConnections
     ELSE /\ activeConnections' = RegistryDelete(activeConnections, id)
          /\ resp' = 200
  /\ UNCHANGED <<conn, clientWebSockets, client, running>>

DisconnectSession_NotifyFirst(id) ==
  /\ running
  /\ last' = Ran("disconnect", id)
  /\ sent' = <<>>
  /\ IF id = NoId
     THEN /\ resp' = 400
          /\ pub' = <<>> /\ dlv' = <<>>
          /\ UNCHANGED <<conn, activeConnections>>
     ELSE /\ pub' = <<Event(id, "session_ended", NullActivity)>>
          /\ dlv' = NotifyAll(pub')
          /\ IF ~Registered(id)
             THEN /\ resp' = 404
                  /\ UNCHANGED <<conn, activeConnections>>
             ELSE /\ conn' = [conn EXCEPT ![id] = disconnect(conn[id], id).conn]
                  /\ activeConnections' = RegistryDelete(activeConnections, id)
                  /\ resp' = 200
  /\ UNCHANGED <<clientWebSockets, client, running>>

\* POST /api/disconnect
DisconnectSession(id) ==
  /\ running
  /\ last' = Ran("disconnect", id)
  /\ sent' = <<>>
  /\ IF id = NoId \/ ~Registered(id)
     THEN /\ resp' = IF id = NoId THEN 400 ELSE 404
          /\ pub' = <<>> /\ dlv' = <<>>
          /\ UNCHANGED <<conn, activeConnections>>
     ELSE LET r == disconnect(conn[id], id)
          IN  /\ conn' = [conn EXCEPT ![id] = r.conn]
              /\ activeConnections' = RegistryDelete(activeConnections, id)
              /\ pub' = r.pub
              /\ dlv' = NotifyAll(r.pub)
              /\ resp' = 200
  /\ UNCHANGED <<clientWebSockets, client, running>>

\* ------------------------------------------------- gateway socket handlers
\* The gateway socket k of session s finishes its opening handshake; the
\* 'open' handler only logs.
SocketOpen(s, k) ==
  /\ running
  /\ conn[s].socks[k].st = "CONNECTING"
  /\ conn' = [conn EXCEPT ![s].socks[k].st = "OPEN"]
  /\ last' = Ran("open", s)
  /\ sent' = <<>> /\ pub' = <<>> /\ dlv' = <<>> /\ resp' = 0
  /\ UNCHANGED <<activeConnections, clientWebSockets, client, running>>

MsgName(op, t) ==
  CASE op = 10 -> "hello"
    [] op = 11 -> "ack"
    [] op = 7 -> "reconnect"
    [] op = 0 /\ t = "READY" -> "ready"
    [] OTHER -> "dispatch"

\* 'message' on gateway socket k of session s.  When resolve(this) settles
\* the awaited promise, POST /api/connect resumes before any other event:
\* it stores the connection and answers 200.
GatewayMessage(s, k, op, seq, t) ==
  /\ running
  /\ conn[s].socks[k].st = "OPEN"
  /\ op = 10 => conn[s].hbTimers < MaxTimers
  /\ LET r == handleMessage(conn[s], s, k, op, seq, t)
     IN  /\ conn' = [conn EXCEPT ![s] = r.conn]
         /\ sent' = r.sent
         /\ pub' = r.pub
         /\ dlv' = NotifyAll(r.pub)
         /\ activeConnections' =
              IF r.resolved THEN Append(activeConnections, s) ELSE activeConnections
         /\ resp' = IF r.resolved THEN 200 ELSE 0
  /\ last' = Ran(MsgName(op, t), s)
  /\ UNCHANGED <<clientWebSockets, client, running>>

\* A heartbeat interval of session s fires.
HeartbeatTick(s) ==
  /\ running
  /\ conn[s].hbTimers > 0
  /\ LET r == heartbeatTick(conn[s])
     IN  /\ conn' = [conn EXCEPT ![s] = r.conn]
         /\ sent' = r.sent
  /\ last' = Ran("tick", s)
  /\ pub' = <<>> /\ dlv' = <<>> /\ resp' = 0
  /\ UNCHANGED <<activeConnections, clientWebSockets, client, running>>

\* The keep-alive interval of session s fires.
KeepAliveTick(s) ==
  /\ running
  /\ conn[s].keepAliveTask
  /\ sent' = keepAliveTick(conn[s])
  /\ last' = Ran("keepalive", s)
  /\ pub' = <<>> /\ dlv' = <<>> /\ resp' = 0
  /\ UNCHANGED <<conn, activeConnections, clientWebSockets, client, running>>

\* The gateway peer closes socket k of session s (or the network drops it):
\* the socket is no longer OPEN and its 'close' event is due.
PeerClose(s, k) ==
  /\ running
  /\ conn[s].socks[k].st = "OPEN"
  /\ conn' = [conn EXCEPT ![s].socks[k].st = "CLOSING"]
  /\ last' = Ran("peerclose", s)
  /\ sent' = <<>> /\ pub' = <<>> /\ dlv' = <<>> /\ resp' = 0
  /\ UNCHANGED <<activeConnections, clientWebSockets, client, running>>

\* 'error' on gateway socket k of session s: reject(error).  When that
\* settles the awaited promise, POST /api/connect answers 500 and stores
\* nothing.  The promise of a connect() call made by the reconnect timer is
\* held by nobody: rejecting it while it is pending (no READY was handled
\* on the socket) is an unhandled rejection, which the runtime either only
\* reports or turns into the end of the process, depending on its version
\* and flags.  The socket's 'close' event is due.
SocketError(s, k) ==
  /\ running
  /\ conn[s].socks[k].st \in {"CONNECTING", "OPEN", "ABORTED"}
  /\ LET rej == conn[s].socks[k].first /\ conn[s].promise = "pending"
         unhandled == ~conn[s].socks[k].first /\ ~conn[s].socks[k].ready
     IN  /\ conn' = [conn EXCEPT ![s].socks[k].st = "CLOSING",
                                 ![s].promise = IF rej THEN "rejected" ELSE @]
         /\ resp' = IF rej THEN 500 ELSE 0
         /\ running' \in (IF unhandled THEN {TRUE, FALSE} ELSE {TRUE})
  /\ last' = Ran("error", s)
  /\ sent' = <<>> /\ pub' = <<>> /\ dlv' = <<>>
  /\ UNCHANGED <<activeConnections, clientWebSockets, client>>

onClose_NoReconnect(c) == cleanup(c)

onClose_DropsActivity(c) ==
  LET c1 == cleanup(c)
  IN  [c1 EXCEPT !.reconn = IF c1.shouldReconnect THEN @ + 1 ELSE @,
                 !.currentActivity = NullActivity]

onClose_SchedulesTwice(c) ==
  LET c1 == cleanup(c)
  IN  IF c1.shouldReconnect THEN [c1 EXCEPT !.reconn = @ + 2] ELSE c1

\* The body of the 'close' handler after the socket became CLOSED.
onClose(c) ==
  LET c1 == cleanup(c)
  IN  IF c1.shouldReconnect THEN [c1 EXCEPT !.reconn = @ + 1] ELSE c1

\* 'close' on gateway socket k of session s.
SocketClose(s, k) ==
  /\ running
  /\ conn[s].socks[k].st = "CLOSING"
  /\ conn' = [conn EXCEPT ![s] = onClose([conn[s] EXCEPT !.socks[k].st = "CLOSED"])]
  /\ pub' = <<Event(s, "discord_disconnected", NullActivity)>>
  /\ dlv' = NotifyAll(pub')
  /\ last' = Ran("close", s)
  /\ sent' = <<>> /\ resp' = 0
  /\ UNCHANGED <<activeConnections, clientWebSockets, client, running>>

\* The setTimeout(() => this.connect(), 5000) of a 'close' handler fires.
ReconnectTimer(s) ==
  /\ running
  /\ conn[s].reconn > 0
  /\ FreeSocks(conn[s]) # {}
  /\ conn' = [conn EXCEPT ![s] = connect([conn[s] EXCEPT !.reconn = @ - 1], FALSE)]
  /\ last' = Ran("reconnect_timer", s)
  /\ sent' = <<>> /\ pub' = <<>> /\ dlv' = <<>> /\ resp' = 0
  /\ UNCHANGED <<activeConnections, clientWebSockets, client, running>>

\* ------------------------------------------------- client socket handlers
\* wss 'connection': a client socket is accepted and greeted.  Client
\* sockets are taken in increasing order.
ClientConnect(c) ==
  /\ running
  /\ client[c].st = "NONE"
  /\ \A j \in Clients : j < c => client[j].st # "NONE"
  /\ client' = [client EXCEPT ![c] = [st |-> "OPEN", sid |-> NoId]]
  /\ dlv' = <<[to |-> c, type |-> "hello", id |-> NoId]>>
  /\ last' = Ran("client_connect", NoId)
  /\ sent' = <<>> /\ pub' = <<>> /\ resp' = 0
  /\ UNCHANGED <<conn, activeConnections, clientWebSockets, running>>

\* 'message' {type: 'register', sessionId: id} on client socket c.
ClientRegister(c, id) ==
  /\ running
  /\ client[c].st = "OPEN"
  /\ client' = [client EXCEPT ![c].sid = id]
  /\ clientWebSockets' = [clientWebSockets EXCEPT ![id] = c]
  /\ dlv' = IF Registered(id)
            THEN <<[to |-> c, type |-> "status", id |-> id]>> ELSE <<>>
  /\ last' = Ran("register", id)
  /\ sent' = <<>> /\ pub' = <<>> /\ resp' = 0
  /\ UNCHANGED <<conn, activeConnections, running>>

\* The client goes away: its socket is no longer OPEN, 'close' is due.
ClientLeave(c) ==
  /\ running
  /\ client[c].st = "OPEN"
  /\ client' = [client EXCEPT ![c].st = "CLOSING"]
  /\ last' = Ran("client_leave", NoId)
  /\ sent' = <<>> /\ pub' = <<>> /\ dlv' = <<>> /\ resp' = 0
  /\ UNCHANGED <<conn, activeConnections, clientWebSockets, running>>

\* 'close' on client socket c.  No event follows 'close' on a socket: the
\* closure's clientSessionId is not read again.
ClientClose(c) ==
  /\ running
  /\ client[c].st = "CLOSING"
  /\ client' = [client EXCEPT ![c] = [st |-> "CLOSED", sid |-> NoId]]
  /\ clientWebSockets' =
       IF client[c].sid # NoId
       THEN [clientWebSockets EXCEPT ![client[c].sid] = 0]
       ELSE clientWebSockets
  /\ last' = Ran("client_close", c)
  /\ sent' = <<>> /\ pub' = <<>> /\ dlv' = <<>> /\ resp' = 0
  /\ UNCHANGED <<conn, activeConnections, running>>

\* ---------------------------------------------------------------- shutdown
RECURSIVE EndedEvents(_)
EndedEvents(reg) ==
  IF reg = <<>> THEN <<>>
  ELSE disconnect(conn[Head(reg)], Head(reg)).pub \o EndedEvents(Tail(reg))

\* process.on('SIGTERM'): disconnect() on every registry entry, in the
\* Map's insertion order, then process.exit(0).
Shutdown ==
  /\ running
  /\ conn' = [s \in Sessions |->
                IF Registered(s) THEN disconnect(conn[s], s).conn ELSE conn[s]]
  /\ pub' = EndedEvents(activeConnections)
  /\ dlv' = NotifyAll(pub')
  /\ running' = FALSE
  /\ last' = Ran("sigterm", NoId)
  /\ sent' = <<>> /\ resp' = 0
  /\ UNCHANGED <<activeConnections, clientWebSockets, client>>

\* ------------------------------------------------------------ specification
SeqArgs == {NullSeq} \cup (0..MaxSeq)
Frames  == {<<10, "">>, <<11, "">>, <<0, "READY">>, <<0, "OTHER">>, <<7, "">>}

\* The requests of the HTTP layer.
HttpNext ==
  \/ \E tok \in Tokens : CreateSession(tok)
  \/ \E id \in ReqIds, a \in ActivityArgs : UpdateStatus(id, a)
  \/ \E id \in ReqIds : DisconnectSession(id)

\* The events of the gateway sockets and of the session's timers, with a
\* peer that may send any frame at any time.
GatewayNext ==
  \/ \E s \in Sessions, k \in SockIds : SocketOpen(s, k)
  \/ \E s \in Sessions, k \in SockIds, f \in Frames, seq \in SeqArgs :
       GatewayMessage(s, k, f[1], seq, f[2])
  \/ \E s \in Sessions : HeartbeatTick(s)
  \/ \E s \in Sessions : KeepAliveTick(s)
  \/ \E s \in Sessions, k \in SockIds : PeerClose(s, k)
  \/ \E s \in Sessions, k \in SockIds : SocketError(s, k)
  \/ \E s \in Sessions, k \in SockIds : SocketClose(s, k)
  \/ \E s \in Sessions : ReconnectTimer(s)

\* The events of the client-facing sockets.
HubNext ==
  \/ \E c \in Clients : ClientConnect(c)
  \/ \E c \in Clients, id \in HubIds : ClientRegister(c, id)
  \/ \E c \in Clients : ClientLeave(c)
  \/ \E c \in Clients : ClientClose(c)

\* The server with no client socket connected.
Next == HttpNext \/ GatewayNext \/ Shutdown

Spec == Init /\ [][Next]_vars


\* ------------------------------------------------- protocol-following peer
\* The session is Ready: READY was handled on the socket it holds and the
\* socket is still open.
Ready(c) == WsOpen(c) /\ c.socks[c.ws].ready

\* A responsive peer answers the opening of a socket with hello and the
\* identify frame with the READY dispatch (sequence number 1), acknowledges
\* heartbeats, and drops only sockets that completed the handshake.
PeerHello(s, k) ==
  /\ ~conn[s].socks[k].ident
  /\ GatewayMessage(s, k, 10, NullSeq, "")

PeerReady(s, k) ==
  /\ conn[s].socks[k].ident
  /\ ~conn[s].socks[k].ready
  /\ GatewayMessage(s, k, 0, 1, "READY")

PeerAck(s, k) ==
  /\ ~conn[s].heartbeatAcked
  /\ GatewayMessage(s, k, 11, NullSeq, "")

PeerDrop(s, k) ==
  /\ conn[s].socks[k].ready
  /\ PeerClose(s, k)

\* The first connection attempt fails before the socket opens.
ConnectFails(s, k) ==
  /\ conn[s].socks[k].st = "CONNECTING"
  /\ conn[s].socks[k].first
  /\ SocketError(s, k)

\* The 'error' event of a handshake that ws.close() aborted.
AbortError(s, k) ==
  /\ conn[s].socks[k].st = "ABORTED"
  /\ SocketError(s, k)

\* A reconnect attempt fails before the socket opens.
ReconnectFails(s, k) ==
  /\ conn[s].socks[k].st = "CONNECTING"
  /\ ~conn[s].socks[k].first
  /\ SocketError(s, k)

\* The peer owes no answer to session s.  Its answers arrive within
\* milliseconds, the intervals are tens of seconds long: an interval fires
\* only when the peer owes nothing.
PeerQuiet(s) ==
  \A k \in SockIds :
    conn[s].socks[k].st = "OPEN" =>
      conn[s].socks[k].ready /\ conn[s].heartbeatAcked

QuietHeartbeatTick(s) == PeerQuiet(s) /\ HeartbeatTick(s)
QuietKeepAliveTick(s) == PeerQuiet(s) /\ KeepAliveTick(s)

\* The handshake and the drops of a responsive peer.
HandshakeNext ==
  \/ \E s \in Sessions, k \in SockIds : SocketOpen(s, k)
  \/ \E s \in Sessions, k \in SockIds : PeerHello(s, k)
  \/ \E s \in Sessions, k \in SockIds : PeerReady(s, k)
  \/ \E s \in Sessions, k \in SockIds : PeerDrop(s, k)
  \/ \E s \in Sessions, k \in SockIds : SocketClose(s, k)
  \/ \E s \in Sessions : ReconnectTimer(s)

ResponsiveNext ==
  \/ HandshakeNext
  \/ \E s \in Sessions, k \in SockIds : PeerAck(s, k)
  \/ \E s \in Sessions, k \in SockIds : ConnectFails(s, k)
  \/ \E s \in Sessions, k \in SockIds : AbortError(s, k)
  \/ \E s \in Sessions : QuietHeartbeatTick(s)
  \/ \E s \in Sessions : QuietKeepAliveTick(s)

\* The server with a responsive peer.  Socket events are delivered, timers
\* fire and the peer answers: each is weakly fair.
LiveNext == HttpNext \/ ResponsiveNext

Fairness ==
  /\ \A s \in Sessions, k \in SockIds :
       /\ WF_vars(SocketOpen(s, k))
       /\ WF_vars(PeerHello(s, k))
       /\ WF_vars(PeerReady(s, k))
       /\ WF_vars(SocketClose(s, k))
       /\ WF_vars(AbortError(s, k))
  /\ \A s \in Sessions : WF_vars(ReconnectTimer(s))

LiveSpec == Init /\ [][LiveNext]_vars /\ Fairness

\* The first handshake of a responsive peer that drops no socket.
FirstHandshakeNext ==
  \/ \E s \in Sessions, k \in SockIds : SocketOpen(s, k)
  \/ \E s \in Sessions, k \in SockIds : PeerHello(s, k)
  \/ \E s \in Sessions, k \in SockIds : PeerReady(s, k)
  \/ \E s \in Sessions, k \in SockIds : SocketClose(s, k)

\* The server with client sockets and a responsive peer that drops no
\* socket.
HubSpecNext == HttpNext \/ FirstHandshakeNext \/ HubNext

HubSpec == Init /\ [][HubSpecNext]_vars


\* The server with one subscriber that connects, registers under any id and
\* goes away at any point, and a responsive peer.
SubscriberNext ==
  \/ ClientConnect(1)
  \/ \E id \in HubIds : ClientRegister(1, id)
  \/ ClientLeave(1)
  \/ ClientClose(1)

SideChannelNext == HttpNext \/ ResponsiveNext \/ SubscriberNext

SideChannelSpec == Init /\ [][SideChannelNext]_vars

\* The server with a responsive peer and callers that supply every
\* descriptor of the table.
ComposeNext ==
  \/ \E tok \in Tokens : CreateSession(tok)
  \/ \E id \in ReqIds, a \in {NullActivity} \cup DescriptorIds : UpdateStatus(id, a)
  \/ \E id \in ReqIds : DisconnectSession(id)
  \/ ResponsiveNext

ComposeSpec == Init /\ [][ComposeNext]_vars

\* The server with a responsive peer and the SIGTERM handler.
ShutdownNext == LiveNext \/ Shutdown

ShutdownSpec == Init /\ [][ShutdownNext]_vars

\* The server with a responsive peer and a network on which a reconnect
\* attempt may fail.
FlakyNext == LiveNext \/ \E s \in Sessions, k \in SockIds : ReconnectFails(s, k)

FlakySpec == Init /\ [][FlakyNext]_vars

\* The peer asks the session to reconnect (op 7) on an open socket.
PeerReconnectRequest(s, k) == GatewayMessage(s, k, 7, NullSeq, "")

\* The server with a responsive peer that may ask for a reconnect.
RequestNext == LiveNext \/ \E s \in Sessions, k \in SockIds : PeerReconnectRequest(s, k)

RequestSpec == Init /\ [][RequestNext]_vars /\ Fairness

\* The peer closes the first socket of a session after it opened and before
\* the READY dispatch (as the gateway does on a rejected identify), with no
\* 'error' event.
PeerEarlyClose(s, k) ==
  /\ conn[s].socks[k].first
  /\ ~conn[s].socks[k].ready
  /\ PeerClose(s, k)

\* The server with a responsive peer that may also close the first socket
\* early.  The heartbeat interval keeps firing and the peer keeps
\* acknowledging.
EarlyCloseNext ==
  LiveNext \/ \E s \in Sessions, k \in SockIds : PeerEarlyClose(s, k)

EarlyCloseFairness ==
  /\ Fairness
  /\ \A s \in Sessions : WF_vars(QuietHeartbeatTick(s))
  /\ \A s \in Sessions, k \in SockIds : WF_vars(PeerAck(s, k))

EarlyCloseSpec == Init /\ [][EarlyCloseNext]_vars /\ EarlyCloseFairness

\* ------------------------------------------------ the session as a component
\* A caller of the DiscordConnection class invokes disconnect() on a
\* constructed session, whether or not disconnect() ran on it before.
CallDisconnect(s) ==
  /\ running
  /\ conn[s].made
  /\ LET r == disconnect(conn[s], s)
     IN  /\ conn' = [conn EXCEPT ![s] = r.conn]
         /\ pub' = r.pub
         /\ dlv' = NotifyAll(r.pub)
  /\ last' = Ran(IF conn[s].disc THEN "close_again" ELSE "close_call", s)
  /\ sent' = <<>> /\ resp' = 0
  /\ UNCHANGED <<activeConnections, clientWebSockets, client, running>>

SessionNext == Next \/ \E s \in Sessions : CallDisconnect(s)

\* The server, with the session class also driven directly by a caller.
SessionSpec == Init /\ [][SessionNext]_vars

\* ===================================================================== claims

\* C1: once disconnect() has run on a session, no step opens a gateway
\* socket for it, sends an identify frame for it, or starts a heartbeat
\* interval for it.
C1_DisconnectIsTerminal ==
  [][\A s \in Sessions :
       conn[s].disc =>
         /\ \A k \in SockIds :
              conn'[s].socks[k].st = "CONNECTING" => conn[s].socks[k].st = "CONNECTING"
         /\ ~(last'.s = s /\ \E i \in 1..Len(sent') : sent'[i].op = 2)
         /\ conn'[s].hbTimers <= conn[s].hbTimers]_vars

\* C2: under a responsive peer and fair delivery, when the peer closes the
\* socket of a Ready session that holds activity a and was not disconnected,
\* then eventually the READY dispatch of a new handshake is handled, the
\* session is Ready and that handler sends the presence frame of a; unless
\* the session is disconnected or its stored activity replaced meanwhile.
C2_ReconnectResendsActivity ==
  \A s \in Sessions, a \in ActivityIds :
    (/\ last = Ran("peerclose", s)
     /\ conn[s].socks[conn[s].ws].ready
     /\ ~conn[s].disc
     /\ conn[s].currentActivity = a)
    ~> (\/ conn[s].disc
        \/ conn[s].currentActivity # a
        \/ /\ last = Ran("ready", s)
           /\ Ready(conn[s])
           /\ conn[s].socks[conn[s].ws].ident
           /\ sent = <<PresenceFrame(PresenceActivities(Descriptors[a]))>>)

\* C2 witness: a READY handler of a reconnect has re-sent the stored
\* activity of a stored session.
C2_Witness ==
  /\ last = Ran("ready", 1)
  /\ Registered(1)
  /\ Ready(conn[1])
  /\ conn[1].currentActivity = 1
  /\ sent = <<PresenceFrame(PresenceActivities(Descriptors[1]))>>

\* C3: under a responsive peer and fair delivery, the promise that
\* POST /api/connect awaits is eventually fulfilled or rejected.
C3_OpenSettles ==
  \A s \in Sessions :
    (conn[s].promise = "pending") ~> (conn[s].promise \in {"fulfilled", "rejected"})

\* C3 witness: READY on the first socket has fulfilled the promise and the
\* request was answered.
C3_Witness ==
  /\ last = Ran("ready", 1)
  /\ conn[1].promise = "fulfilled"
  /\ resp = 200

\* C4: after create-session failed (the awaited promise was rejected) the
\* session is not stored, holds no connecting or open socket and no pending
\* reconnect timer, and once its socket is closed no heartbeat interval.
C4_FailedCreateLeavesNothing ==
  \A s \in Sessions :
    conn[s].promise = "rejected" =>
      /\ ~Registered(s)
      /\ conn[s].reconn = 0
      /\ \A k \in SockIds : conn[s].socks[k].st \in {"NONE", "CLOSING", "CLOSED"}
      /\ (\A k \in SockIds : conn[s].socks[k].st \in {"NONE", "CLOSED"})
           => conn[s].hbTimers = 0

\* C5: an update-activity request on a stored session stores the descriptor;
\* it sends a frame only when the session is Ready, and then exactly one
\* presence frame.
C5_FrameOnlyWhenReady ==
  [][\A id \in Sessions, a \in ActivityIds :
       (UpdateStatus(id, a) /\ Registered(id)) =>
         /\ conn'[id].currentActivity = a
         /\ ~Ready(conn[id]) => sent' = <<>>
         /\ Ready(conn[id]) => Len(sent') = 1 /\ sent'[1].op = 3]_vars

\* C6 as stated: a tick with the previous heartbeat unacknowledged leaves the
\* socket not open and sends nothing; every other tick sets ack-pending and
\* sends one heartbeat frame carrying the last-seen sequence number.
C6_TickAsStated ==
  [][\A s \in Sessions :
       last' = Ran("tick", s) =>
         IF ~conn[s].heartbeatAcked
         THEN sent' = <<>> /\ ~WsOpen(conn'[s])
         ELSE /\ ~conn'[s].heartbeatAcked
              /\ sent' = <<HeartbeatFrame(conn[s].lastSequence)>>]_vars

\* C6 amended: a tick with the previous heartbeat unacknowledged leaves the
\* socket not open and sends nothing, and changes nothing when the socket is
\* already closing; a tick with the heartbeat acknowledged and the socket
\* open sets ack-pending and sends one heartbeat frame carrying the
\* last-seen sequence number; a tick with the socket not open does nothing.
\* No tick schedules a reconnect; the 'close' event schedules exactly one
\* when reconnect is enabled and none otherwise, and at most one is pending.
C6_TickAmended ==
  [][\A s \in Sessions :
       LET c == conn[s]
           d == conn'[s]
       IN  /\ last' = Ran("tick", s) =>
                /\ d.reconn = c.reconn
                /\ ~c.heartbeatAcked =>
                     /\ sent' = <<>>
                     /\ ~WsOpen(d)
                     /\ c.socks[c.ws].st \in {"CLOSING", "CLOSED"} => d = c
                /\ (c.heartbeatAcked /\ WsOpen(c)) =>
                     /\ d = [c EXCEPT !.heartbeatAcked = FALSE]
                     /\ sent' = <<HeartbeatFrame(c.lastSequence)>>
                /\ (c.heartbeatAcked /\ ~WsOpen(c)) => d = c /\ sent' = <<>>
           /\ last' = Ran("close", s) =>
                /\ d.reconn = c.reconn + (IF c.shouldReconnect THEN 1 ELSE 0)
                /\ d.reconn <= 1]_vars

\* C6 witness: a tick found the heartbeat unacknowledged and the socket
\* is closing.
C6_Witness ==
  /\ last = Ran("tick", 1)
  /\ ~conn[1].heartbeatAcked
  /\ conn[1].socks[conn[1].ws].st = "CLOSING"
  /\ sent = <<>>

\* C7: a call of disconnect() on a session on which disconnect() already
\* ran publishes no event.
C7_CloseIdempotent ==
  \A s \in Sessions : last = Ran("close_again", s) => pub = <<>>

\* C8: when a client socket closes, the subscriber table afterwards has no
\* entry pointing to it and every entry pointing to another socket is
\* unchanged.
C8_CloseRemovesOwnEntryOnly ==
  [][\A c \in Clients :
       last' = Ran("client_close", c) =>
         \A id \in HubIds :
           /\ clientWebSockets'[id] # c
           /\ clientWebSockets[id] # c => clientWebSockets'[id] = clientWebSockets[id]]_vars

\* C9: a session that was stored and is no longer in the registry had
\* disconnect() invoked on it; right after a successful disconnect request
\* the entry is gone, the socket is not open and get-status reports
\* connected: false.
C9_RemoveClosesFirst ==
  /\ \A s \in Sessions :
       (conn[s].promise = "fulfilled" /\ ~Registered(s)) => conn[s].disc
  /\ \A id \in Sessions :
       (last = Ran("disconnect", id) /\ resp = 200) =>
         /\ conn[id].disc
         /\ ~Registered(id)
         /\ ~WsOpen(conn[id])
         /\ ~StatusConnected(id)

\* C9 witness: a disconnect request on a stored session was answered 200.
C9_Witness ==
  /\ last = Ran("disconnect", 1)
  /\ resp = 200
  /\ conn[1].promise = "fulfilled"

\* C10: an update-activity or disconnect request naming an id that is not in
\* the registry answers 404 and changes neither the sessions, the registry
\* nor the subscriber table, and sends no frame and no event.
C10_NotFoundNoEffect ==
  [][(/\ last'.op \in {"update", "disconnect"}
      /\ last'.s # NoId
      /\ ~Registered(last'.s)) =>
       /\ resp' = 404
       /\ UNCHANGED <<conn, activeConnections, clientWebSockets, client>>
       /\ sent' = <<>> /\ pub' = <<>> /\ dlv' = <<>>]_vars

\* C10 witness: a request named the id of a session that exists and has an
\* open subscriber but is not stored, and was answered 404.
C10_Witness ==
  /\ last.op \in {"update", "disconnect"}
  /\ last.s = 1
  /\ resp = 404
  /\ conn[1].made
  /\ clientWebSockets[1] # 0
  /\ client[clientWebSockets[1]].st = "OPEN"

\* C11: the steps of a dropped gateway socket (the peer's close, a socket
\* error, the 'close' handler) leave the registry and the session's stored
\* activity and reconnect-enabled flag unchanged; while the process runs the
\* registry holds exactly the sessions whose creation succeeded and on which
\* disconnect() did not run.
C11_DropKeepsSession ==
  /\ [](running =>
         \A s \in Sessions :
           Registered(s) <=> (conn[s].promise = "fulfilled" /\ ~conn[s].disc))
  /\ [][\A s \in Sessions :
          last' \in {Ran("peerclose", s), Ran("error", s), Ran("close", s)} =>
            /\ activeConnections' = activeConnections
            /\ conn'[s].currentActivity = conn[s].currentActivity
            /\ conn'[s].shouldReconnect = conn[s].shouldReconnect]_vars

\* C11 witness: the 'close' handler ran on a stored session that holds an
\* activity; the session is still stored and a reconnect is scheduled.
C11_Witness ==
  /\ last = Ran("close", 1)
  /\ Registered(1)
  /\ conn[1].currentActivity = 1
  /\ conn[1].shouldReconnect
  /\ conn[1].reconn = 1

\* C12: a handler that publishes events changes neither the subscriber
\* table nor a client socket, and the messages it sends to client sockets
\* are, in order, one message per published event whose session id has a
\* subscriber with an open socket, sent to that subscriber; the messages of
\* a register step are status messages only, those of an accept step the
\* greeting only: nothing published earlier is delivered later.
C12_PublishAtMostOnce ==
  [][LET HasOpen(e) == /\ clientWebSockets[e.id] # 0
                       /\ client[clientWebSockets[e.id]].st = "OPEN"
         due == SelectSeq(pub', HasOpen)
     IN  /\ pub' # <<>> => UNCHANGED <<clientWebSockets, client>>
         /\ last'.op \notin {"register", "client_connect"} =>
              /\ Len(dlv') = Len(due)
              /\ \A i \in 1..Len(due) :
                   dlv'[i] = [to |-> clientWebSockets[due[i].id],
                              type |-> due[i].type, id |-> due[i].id]
         /\ last'.op = "register" =>
              /\ pub' = <<>>
              /\ \A i \in 1..Len(dlv') : dlv'[i].type = "status"
         /\ last'.op = "client_connect" =>
              /\ pub' = <<>>
              /\ \A i \in 1..Len(dlv') : dlv'[i].type = "hello"]_vars

\* C12 witness: an event was published for an id whose subscriber's socket
\* is no longer open, and nothing was delivered.
C12_Witness ==
  /\ pub # <<>>
  /\ dlv = <<>>
  /\ clientWebSockets[1] # 0
  /\ client[clientWebSockets[1]].st = "CLOSING"

\* C13: the session's state, the registry and the frames sent to the
\* gateway do not depend on the subscriber: a step of a client socket leaves
\* the session and the registry unchanged and sends no frame, and every
\* other step changes the session and sends the frames that the session's
\* own method computes from the session's own state and the event, whatever
\* the subscriber table holds.
C13_HubIsSideChannel ==
  [][/\ last'.op \in {"client_connect", "register", "client_leave", "client_close"} =>
          /\ UNCHANGED <<conn, activeConnections, running>>
          /\ sent' = <<>>
     /\ \A s \in Sessions :
          LET c == conn[s]
              d == conn'[s]
          IN  /\ (last' = Ran("update", s) /\ Registered(s)) =>
                   \E a \in ActivityArgs :
                     /\ d = updatePresence(c, s, a).conn
                     /\ sent' = updatePresence(c, s, a).sent
                     /\ UNCHANGED activeConnections
              /\ (last' = Ran("disconnect", s) /\ Registered(s)) =>
                   /\ d = disconnect(c, s).conn
                   /\ sent' = <<>>
                   /\ activeConnections' = RegistryDelete(activeConnections, s)
              /\ last' \in {Ran("hello", s), Ran("ack", s), Ran("ready", s)} =>
                   \E k \in SockIds, f \in Frames, seq \in SeqArgs :
                     /\ c.socks[k].st = "OPEN"
                     /\ MsgName(f[1], f[2]) = last'.op
                     /\ d = handleMessage(c, s, k, f[1], seq, f[2]).conn
                     /\ sent' = handleMessage(c, s, k, f[1], seq, f[2]).sent
              /\ last' = Ran("tick", s) =>
                   /\ d = heartbeatTick(c).conn
                   /\ sent' = heartbeatTick(c).sent
              /\ last' = Ran("keepalive", s) =>
                   /\ d = c
                   /\ sent' = keepAliveTick(c)
              /\ last' = Ran("close", s) =>
                   \E k \in SockIds :
                     /\ c.socks[k].st = "CLOSING"
                     /\ d = onClose([c EXCEPT !.socks[k].st = "CLOSED"])
                     /\ sent' = <<>>
              /\ last' = Ran("reconnect_timer", s) =>
                   /\ d = connect([c EXCEPT !.reconn = @ - 1], FALSE)
                   /\ sent' = <<>>]_vars

\* C13 witness: an update-activity request sent a presence frame for a
\* session that has no subscriber, after a subscriber had registered for
\* it and gone.
C13_Witness ==
  /\ last = Ran("update", 1)
  /\ Len(sent) = 1
  /\ clientWebSockets[1] = 0
  /\ client[1].st = "CLOSED"

\* C14: an update-activity request on a stored session whose socket is open
\* sends exactly one presence frame; its activity list is empty when the
\* descriptor is absent or its name is empty, and otherwise holds one
\* activity with the descriptor's name, details and state, whose assets are
\* empty unless an artwork reference was supplied.
C14_ComposeTotal ==
  [][\A id \in Sessions, a \in {NullActivity} \cup DescriptorIds :
       (UpdateStatus(id, a) /\ Registered(id) /\ WsOpen(conn[id])) =>
         /\ Len(sent') = 1
         /\ sent'[1].op = 3
         /\ IF a = NullActivity \/ Descriptors[a].name = ""
            THEN sent'[1].activities = <<>>
            ELSE /\ Len(sent'[1].activities) = 1
                 /\ sent'[1].activities[1].name = Descriptors[a].name
                 /\ sent'[1].activities[1].details = Descriptors[a].details
                 /\ sent'[1].activities[1].state = Descriptors[a].state
                 /\ Descriptors[a].imageUrl = <<>> =>
                      sent'[1].activities[1].assets = <<>>]_vars

\* C15: in the frame an update-activity request sends for a named
\* descriptor, an artwork reference that is a CDN image URL or a prefixed
\* reference yields the large_image key with the prefix and the trailing
\* segment of the reference; a reference of any other shape, or none,
\* yields no artwork key at all.
C15_ArtworkNormalized ==
  [][\A id \in Sessions, a \in DescriptorIds :
       (/\ UpdateStatus(id, a)
        /\ Registered(id)
        /\ WsOpen(conn[id])
        /\ Descriptors[a].name # "") =>
         LET url    == Descriptors[a].imageUrl
             assets == sent'[1].activities[1].assets
         IN  IF url # <<>> /\ (StartsWith(url, CdnPrefix) \/ StartsWith(url, SpotifyPrefix))
             THEN /\ Len(assets) >= 1
                  /\ assets[1] = <<"large_image", SpotifyPrefix \o <<url[Len(url)]>> >>
             ELSE assets = <<>>]_vars

\* C16: when the SIGTERM handler has run, disconnect() has run on every
\* session in the registry and on every session that holds an open gateway
\* socket or a pending reconnect timer.
C16_ShutdownClosesLive ==
  last.op = "sigterm" =>
    \A s \in Sessions :
      /\ Registered(s) => conn[s].disc
      /\ ((\E k \in SockIds : conn[s].socks[k].st = "OPEN") \/ conn[s].reconn > 0)
           => conn[s].disc

\* C17: every 'close' handler leaves no heartbeat interval running,
\* publishes the disconnection event, and schedules exactly one reconnect
\* when reconnect is enabled and none otherwise; an 'error' on the socket of
\* a reconnect attempt answers no request with an error, leaves the process
\* running and the socket's 'close' due.
C17_CloseHandlingUniform ==
  [][\A s \in Sessions :
       LET c == conn[s]
           d == conn'[s]
       IN  /\ last' = Ran("close", s) =>
                /\ ~d.heartbeatTask
                /\ d.hbTimers = 0
                /\ pub' = <<Event(s, "discord_disconnected", NullActivity)>>
                /\ d.reconn = c.reconn + (IF c.shouldReconnect THEN 1 ELSE 0)
           /\ (/\ last' = Ran("error", s)
               /\ \E k \in SockIds :
                    ~c.socks[k].first /\ c.socks[k].st # d.socks[k].st) =>
                /\ running'
                /\ resp' = 0
                /\ d.promise = c.promise
                /\ \E k \in SockIds : d.socks[k].st = "CLOSING"]_vars

\* C18: in every reachable state a session has at most one heartbeat
\* interval that was set and not cleared.
C18_OneHeartbeatTimer ==
  \A s \in Sessions : conn[s].hbTimers <= 1

\* C19: the hello handler answers with exactly the identify frame carrying
\* the session's token; a heartbeat frame is sent only on a socket on which
\* the identify frame was sent before; the session becomes Ready, and the
\* ready event is published, only by the READY handler of the socket it
\* holds; every frame sent is a heartbeat, identify or presence frame (no
\* resume).
C19_FreshHandshakeInOrder ==
  [][\A s \in Sessions :
       LET c == conn[s]
           d == conn'[s]
       IN  /\ last' = Ran("hello", s) => sent' = <<IdentifyFrame(c.token)>>
           /\ last'.s = s =>
                \A i \in 1..Len(sent') :
                  /\ sent'[i].op \in {1, 2, 3}
                  /\ sent'[i].op = 2 => last'.op = "hello"
                  /\ sent'[i].op = 1 => (c.ws # 0 /\ c.socks[c.ws].ident)
           /\ (Ready(d) /\ ~Ready(c)) => last' = Ran("ready", s)
           /\ (\E i \in 1..Len(pub') :
                 pub'[i] = Event(s, "discord_ready", NullActivity))
                => last' = Ran("ready", s)]_vars

\* C20: the handler of a reconnect-request frame leaves the session's
\* socket not open and leaves reconnect-enabled and the stored activity
\* unchanged, as do the 'close' handler and the reconnect timer; and under
\* fair delivery, after a reconnect-request on a session with reconnect
\* enabled the reconnect timer calls connect(), unless disconnect() runs on
\* the session first.
C20_ReconnectRequestReconnects ==
  /\ [][\A s \in Sessions :
          /\ last' = Ran("reconnect", s) =>
               /\ ~WsOpen(conn'[s])
               /\ \A k \in SockIds : conn'[s].socks[k].st # "OPEN"
          /\ last' \in {Ran("reconnect", s), Ran("close", s), Ran("reconnect_timer", s)} =>
               /\ conn'[s].shouldReconnect = conn[s].shouldReconnect
               /\ conn'[s].currentActivity = conn[s].currentActivity]_vars
  /\ \A s \in Sessions :
       (last = Ran("reconnect", s) /\ conn[s].shouldReconnect)
         ~> (\/ conn[s].disc
             \/ /\ last = Ran("reconnect_timer", s)
                /\ conn[s].socks[conn[s].ws].st = "CONNECTING")

\* C20 witness: a reconnect-request was handled on a stored session that
\* holds an activity; its socket is closing and reconnect is enabled.
C20_Witness ==
  /\ last = Ran("reconnect", 1)
  /\ Registered(1)
  /\ conn[1].shouldReconnect
  /\ conn[1].currentActivity = 1
  /\ conn[1].socks[conn[1].ws].st = "CLOSING"

\* C21: every inbound frame that carries a sequence number, 0 included,
\* sets the stored last-seen sequence to that number; a frame without one
\* leaves it unchanged; the stored value does not decrease when the frame's
\* number is not below it; and a heartbeat frame carries the stored value as
\* it is at the tick.
C21_SequenceTracksEveryFrame ==
  [][\A s \in Sessions :
       /\ \A k \in SockIds, f \in Frames, seq \in SeqArgs :
            GatewayMessage(s, k, f[1], seq, f[2]) =>
              /\ seq # NullSeq => conn'[s].lastSequence = seq
              /\ seq = NullSeq => conn'[s].lastSequence = conn[s].lastSequence
              /\ (seq # NullSeq /\ seq >= conn[s].lastSequence) =>
                   conn'[s].lastSequence >= conn[s].lastSequence
       /\ last' = Ran("tick", s) =>
            \A i \in 1..Len(sent') :
              sent'[i] = HeartbeatFrame(conn[s].lastSequence)]_vars

\* C22: under fair delivery a create-session request is eventually answered,
\* with an error or with success, also when the peer closes the first socket
\* before the READY dispatch without a socket error; and a request answered
\* with success has stored the session in the registry.
C22_CreateAlwaysAnswered ==
  /\ [](\A s \in Sessions :
          (last = Ran("ready", s) /\ resp = 200) => Registered(s))
  /\ \A s \in Sessions :
       (last = Ran("connect", s))
         ~> (\/ last = Ran("error", s) /\ resp = 500
             \/ last = Ran("ready", s) /\ resp = 200)

\* The gateway sockets of a session that were created and whose 'close'
\* event has not been handled.
LiveSocks(c) == {k \in SockIds : c.socks[k].st \notin {"NONE", "CLOSED"}}

\* C23: in every reachable state a session has at most one gateway socket
\* that is not closed and at most one pending reconnect timer, and never
\* both; a socket is created only by the create-session request or by a
\* reconnect timer, which is then no longer pending; and a reconnect is
\* scheduled only by the 'close' handler of a socket, once.
C23_OneSocketOrOneTimer ==
  /\ [](\A s \in Sessions :
          Cardinality(LiveSocks(conn[s])) + conn[s].reconn <= 1)
  /\ [][\A s \in Sessions :
          LET c == conn[s]
              d == conn'[s]
          IN  /\ (LiveSocks(d) \ LiveSocks(c) # {}) =>
                   /\ last' \in {Ran("connect", s), Ran("reconnect_timer", s)}
                   /\ Cardinality(LiveSocks(d) \ LiveSocks(c)) = 1
                   /\ last' = Ran("reconnect_timer", s) => d.reconn = c.reconn - 1
              /\ d.reconn > c.reconn =>
                   /\ last' = Ran("close", s)
                   /\ d.reconn = c.reconn + 1
                   /\ Cardinality(LiveSocks(c) \ LiveSocks(d)) = 1]_vars

\* C23 witness: the reconnect timer that the close of the previous socket
\* scheduled has fired on a stored session: one socket is connecting and no
\* timer is pending.
C23_Witness ==
  /\ last = Ran("reconnect_timer", 1)
  /\ Registered(1)
  /\ conn[1].reconn = 0
  /\ Cardinality(LiveSocks(conn[1])) = 1
  /\ conn[1].socks[conn[1].ws].st = "CONNECTING"

\* C24: once disconnect() has published the session-ended event of a
\* session id, no step publishes a disconnected, ready or status-updated
\* event for that id.
C24_EndedIsLastEvent ==
  [][\A s \in Sessions :
       conn[s].disc =>
         \A i \in 1..Len(pub') :
           pub'[i].id = s =>
             pub'[i].type \notin {"discord_disconnected", "discord_ready",
                                  "status_updated"}]_vars

\* The `activities` list updatePresence composes for the stored activity;
\* with none stored the list is empty.
ComposedActivities(act) ==
  IF act = NullActivity THEN <<>> ELSE PresenceActivities(Descriptors[act])

\* C25: every presence frame a handler of the session sends, the keep-alive
\* frame included, is the frame updatePresence composes for the activity
\* the session holds when the handler is done: the same activity list with
\* the same artwork fields.
C25_KeepAliveSameFrame ==
  [][\A s \in Sessions :
       last'.s = s =>
         \A i \in 1..Len(sent') :
           sent'[i].op = 3 =>
             sent'[i] = PresenceFrame(ComposedActivities(conn'[s].currentActivity))]_vars

====
